---- MODULE Spec2Model ----
(***************************************************************************)
(* Model of paramfiles/demo_mock_params.py: the parameter catalog and the  *)
(* factories (load_model, load_obs), the multi-component source            *)
(* (SpatialSource.get_galaxy_spectrum / get_spectrum) and the model        *)
(* wrapper (SpatialSedModel.sed).                                          *)
(*                                                                         *)
(* Numbers.  Every float of the program is modelled as an exact rational   *)
(* <<numerator, denominator>> in lowest terms with a positive denominator. *)
(* Array indices are 1-based here (Python index i is position i+1);        *)
(* component tags keep their Python values (-1, 0, 1, ...).                *)
(* Strings that the program takes apart (file and filter names) are        *)
(* sequences of tokens, the separators "." and "_" being tokens.           *)
(***************************************************************************)
EXTENDS Integers, Sequences, FiniteSets, TLC

VARIABLES
  model_params,  \* the module-level parameter catalog (list of dicts)
  zred_arg,      \* the most recent load_model call: its zred keyword, and the
                 \* catalog's zred before it
  directory,     \* os.listdir($APPS/spatialsed/filters/): a list of file names
  args,          \* the arguments of the call on the source or the model wrapper
  ret            \* the most recent call: its operation and outcome

vars == <<model_params, zred_arg, directory, args, ret>>

-----------------------------------------------------------------------------
(* Bounds of the model *)

MaxFilters == 3   \* longest filter list handed to get_spectrum / sed
NWave == 2        \* number of points of the engine's wavelength grid
MaxGround == 2    \* number of ground-based filter files a directory may hold

-----------------------------------------------------------------------------
(* Exact rational arithmetic standing for the program's float arithmetic *)

Abs(x) == IF x < 0 THEN -x ELSE x

RECURSIVE GCD(_, _)
GCD(a, b) == IF b = 0 THEN a ELSE GCD(b, a % b)

Rat(n, d) ==
  LET g == GCD(Abs(n), Abs(d))
      s == IF d < 0 THEN -1 ELSE 1
  IN  IF n = 0 THEN <<0, 1>> ELSE <<(s * n) \div g, (s * d) \div g>>

R(n) == <<n, 1>>

RAdd(a, b) == Rat(a[1] * b[2] + b[1] * a[2], a[2] * b[2])

RMul(a, b) ==
  LET g1 == GCD(Abs(a[1]), b[2])
      g2 == GCD(Abs(b[1]), a[2])
  IN  IF a[1] = 0 \/ b[1] = 0 THEN <<0, 1>>
      ELSE <<(a[1] \div g1) * (b[1] \div g2), (a[2] \div g2) * (b[2] \div g1)>>

RInv(a) == IF a[1] < 0 THEN <<-a[2], -a[1]>> ELSE <<a[2], a[1]>>

RDiv(a, b) == RMul(a, RInv(b))

RLt(a, b) == a[1] * b[2] < b[1] * a[2]

RLe(a, b) == a[1] * b[2] <= b[1] * a[2]

RECURSIVE RSum(_)
RSum(s) == IF s = <<>> THEN <<0, 1>> ELSE RAdd(Head(s), RSum(Tail(s)))

\* A list or 1-d array held in memory: the elements are computed once
Array(s) == s \o <<>>

\* np.dot of two 1-d arrays
Dot(a, b) == RSum([i \in 1..Len(a) |-> RMul(a[i], b[i])])

RECURSIVE SeqSum(_)
SeqSum(s) == IF s = <<>> THEN 0 ELSE Head(s) + SeqSum(Tail(s))

-----------------------------------------------------------------------------
(* MODEL_PARAMS: the catalog as the module builds it at import time.       *)
(* 'init' is the literal of the source as a rational (mass in units of     *)
(* 1e10 solar masses) or a boolean; 'prior' is the name of the prior class.*)

NComp == 2   \* multiplicity of the per-component parameters ('N': 2)

Entry(name, n, isfree, init, prior) ==
  [name |-> name, N |-> n, isfree |-> isfree, init |-> init, prior |-> prior]

model_params_0 ==
  << Entry("zred", 1, FALSE, <<1, 10>>, "TopHat"),
     Entry("sfh", 1, FALSE, R(4), "None"),
     Entry("mass", NComp, TRUE, R(1), "LogUniform"),
     Entry("logzsol", NComp, TRUE, <<-3, 10>>, "TopHat"),
     Entry("pmetals", 1, FALSE, R(-99), "None"),
     Entry("tau", NComp, TRUE, R(1), "LogUniform"),
     Entry("tage", NComp, TRUE, R(5), "TopHat"),
     Entry("dust2", NComp, TRUE, <<7, 20>>, "TopHat"),
     Entry("dust_index", 1, FALSE, <<-7, 10>>, "None"),
     Entry("dust1_index", 1, FALSE, R(-1), "None"),
     Entry("dust_type", 1, FALSE, R(0), "None"),
     Entry("add_dust_emission", 1, FALSE, TRUE, "None"),
     Entry("duste_umin", 1, FALSE, R(1), "None"),
     Entry("duste_qpah", 1, FALSE, R(2), "None"),
     Entry("add_neb_emission", 1, FALSE, FALSE, "None"),
     Entry("gas_logz", 1, FALSE, R(0), "TopHat"),
     Entry("gas_logu", 1, FALSE, R(-2), "TopHat"),
     Entry("phot_jitter", 1, FALSE, R(0), "TopHat") >>

\* [p['name'] for p in model_params]
pn(mp) == [i \in 1..Len(mp) |-> mp[i].name]

\* list.index: the first position holding x
Index(s, x) == CHOOSE i \in 1..Len(s) : s[i] = x /\ \A j \in 1..(i - 1) : s[j] # x

\* A keyword dictionary is a function from keys to values; Get is dict.get
Get(kw, key, default) == IF key \in DOMAIN kw THEN kw[key] ELSE default

\* The mutant: a new zred entry is appended instead of the old one rewritten
load_model_append(mp, kw) ==
  Append(mp, [mp[Index(pn(mp), "zred")] EXCEPT !.init = Get(kw, "zred", R(0))])

\* The mutant: the redshift is rewritten and also made a free parameter
load_model_free(mp, kw) ==
  LET zind == Index(pn(mp), "zred")
  IN  [mp EXCEPT ![zind].init = Get(kw, "zred", R(0)), ![zind].isfree = TRUE]

\* The mutant: the redshift is written only when it is nonzero
load_model_skip_zero(mp, kw) ==
  LET zred == Get(kw, "zred", R(0))
      zind == Index(pn(mp), "zred")
  IN  IF zred = R(0) THEN mp ELSE [mp EXCEPT ![zind].init = zred]

\* load_model(zred=0.0, **extras): the catalog after the call (the model
\* that is returned is built over this same list)
load_model(mp, kw) ==
  LET zred == Get(kw, "zred", R(0))
      zind == Index(pn(mp), "zred")
  IN  [mp EXCEPT ![zind].init = zred]

\* model_params[zind]['init']
zred_init(mp) == mp[Index(pn(mp), "zred")].init

-----------------------------------------------------------------------------
(* Names.  A name is a token sequence; + is concatenation.                 *)

f435w == <<"f435w">>
f606w == <<"f606w">>
f775w == <<"f775w">>
f850lp == <<"f850lp">>
f125w == <<"f125w">>
f140w == <<"f140w">>
f160w == <<"f160w">>
goodsn == <<"_", "goodsn">>

\* Every filter name of the model, in the order Python sorts the strings
\* (the order np.unique returns them in)
SortedNames ==
  << f125w \o goodsn, f140w \o goodsn, f160w \o goodsn,
     f160w \o goodsn \o <<"_", "v2">>, f435w \o goodsn, f606w \o goodsn,
     f775w \o goodsn, <<"f814w">> \o goodsn, f850lp \o goodsn,
     <<"irac1">> \o goodsn, <<"u">> \o goodsn >>

Rank(name) == CHOOSE i \in 1..Len(SortedNames) : SortedNames[i] = name

Range(s) == {s[i] : i \in 1..Len(s)}

\* The elements of a set of names as a sorted list
RECURSIVE Sorted(_)
Sorted(S) ==
  IF S = {} THEN <<>>
  ELSE LET m == CHOOSE x \in S : \A y \in S : Rank(x) <= Rank(y)
       IN  <<m>> \o Sorted(S \ {m})

\* The mutant: the inverse index counts the names in their order of first
\* appearance, while the unique names come back sorted
np_unique_appearance(names) ==
  LET u == Sorted(Range(names))
      firsts == SelectSeq([k \in 1..Len(names) |-> k],
                          LAMBDA k : \A j \in 1..(k - 1) : names[j] # names[k])
  IN  [unique |-> u,
       uinds |-> Array([j \in 1..Len(u) |-> Index(names, u[j])]),
       inverse |-> Array([k \in 1..Len(names) |->
                      Index([j \in 1..Len(firsts) |-> names[firsts[j]]], names[k])])]

\* np.unique(names, return_index=True, return_inverse=True): the sorted
\* unique names, the first position of each, and for every position of
\* names the position of its name among the unique ones
np_unique(names) ==
  LET u == Sorted(Range(names))
  IN  [unique |-> u,
       uinds |-> Array([j \in 1..Len(u) |-> Index(names, u[j])]),
       inverse |-> Array([k \in 1..Len(names) |-> Index(u, names[k])])]

-----------------------------------------------------------------------------
(* The external engines, by the contract the module relies on.  They are   *)
(* deterministic functions; the values are small stand-ins.                *)

\* prospect.sources.constants, as positive stand-ins
lightspeed == <<3, 1>>
to_cgs == <<2, 1>>
jansky_cgs == <<1, 5>>

\* The inner single-population engine once update_component(i) has pointed
\* it at a component: the component's slice of the per-component parameters
\* is abstracted to a population id.  Population 3 is a degenerate output
\* with negative and zero fluxes.
Pops == {1, 2, 3}

ssp_wave == Array([w \in 1..NWave |-> R(w)])

ssp_spectrum(pop) ==
  Array([w \in 1..NWave |-> CASE pop = 1 -> R(w)
                              [] pop = 2 -> Rat(3, w)
                              [] OTHER   -> R(w - 2)])

ssp_stellar_mass(pop) ==
  CASE pop = 1 -> <<1, 2>>
    [] pop = 2 -> <<2, 3>>
    [] OTHER   -> <<1, 1>>

\* cosmo.luminosity_distance(zred).value in Mpc: positive, growing with zred
luminosity_distance(zred) == RMul(<<1, 100000>>, RAdd(R(1), zred))

\* Filter.ab_mag followed by 10**(-0.4*mag): the transmission-weighted mean
\* of the flux density over the observed wavelengths
transmission(filt, lam) == Rank(filt.name) + (IF RLt(R(2), lam) THEN 1 ELSE 0)

band_maggies(wa, fnu, filt) ==
  LET t == Array([w \in 1..Len(wa) |-> transmission(filt, wa[w])])
  IN  RDiv(RSum([w \in 1..Len(wa) |-> RMul(R(t[w]), fnu[w])]), R(SeqSum(t)))

\* 10**(-0.4 * getSED(wave, flux, filterlist)) for a 2-d flux: one row per
\* source row, one column per filter
getSED_maggies(wa, flux, filterlist) ==
  Array([r \in 1..Len(flux) |->
     Array([j \in 1..Len(filterlist) |-> band_maggies(wa, flux[r], filterlist[j])])])

-----------------------------------------------------------------------------
(* SpatialSource *)

\* The mutant: the composite is the plain mean over the components
mass_weighted_mean(mass, x) == RDiv(Dot(mass, x), R(Len(mass)))

\* np.dot(mass, x) / mass.sum()
mass_weighted(mass, x) == RDiv(Dot(mass, x), RSum(mass))

\* get_galaxy_spectrum(**params), p being self.params after self.update:
\* p.mass the component masses, p.pop the component populations
get_galaxy_spectrum(p) ==
  LET n == Len(p.mass)
      spectra == Array([i \in 1..n |-> ssp_spectrum(p.pop[i])])
      mfrac == Array([i \in 1..n |-> ssp_stellar_mass(p.pop[i])])
      mass == IF Get(p, "mass_units", "mformed") = "mstar"
              THEN Array([i \in 1..n |-> RDiv(p.mass[i], mfrac[i])])
              ELSE p.mass
      spectrum == Array([w \in 1..NWave |->
                     mass_weighted(mass, [i \in 1..n |-> spectra[i][w]])])
      mfrac_sum == mass_weighted(mass, mfrac)
  IN  [wave |-> ssp_wave,
       spectrum |-> Append(spectra, spectrum),
       mfrac |-> Append(mfrac, mfrac_sum)]

\* The distance factor of get_spectrum
dfactor(p) ==
  LET zred == Get(p, "zred", R(0))
      sq(x) == RMul(x, x)
  IN  IF zred = R(0) \/ "lumdist" \in DOMAIN p
      THEN sq(RMul(Get(p, "lumdist", <<1, 100000>>), R(100000)))
      ELSE sq(RMul(luminosity_distance(zred), R(100000)))

\* np.squeeze(mass.tolist() + [mass.sum()])
mass_vector(m) == Append(m, RSum(m))

\* A Python index into an axis of length n as a 1-based position; 0 when it
\* is out of range
PyIndex(i, n) ==
  IF i >= 0 /\ i < n THEN i + 1
  ELSE IF i < 0 /\ -i <= n THEN n + i + 1
  ELSE 0

\* The mutant: the component selector is ignored and the composite row used
select_composite(phot, component, filter_ind) ==
  [err |-> "ok",
   phot |-> Array([k \in 1..Len(filter_ind) |-> phot[Len(phot)][filter_ind[k]]])]

\* phot[component, filter_ind] for a 2-d phot: component is a scalar
\* (no key "array") or an integer array broadcast against filter_ind
select(phot, component, filter_ind) ==
  LET nf == Len(filter_ind)
      scalar == "array" \notin DOMAIN component
      nc == IF scalar THEN 1 ELSE Len(component.array)
      len == IF nc > nf THEN nc ELSE nf
      tag(k) == IF scalar THEN component.scalar
                ELSE component.array[IF nc = 1 THEN 1 ELSE k]
      col(k) == filter_ind[IF nf = 1 THEN 1 ELSE k]
  IN  IF nc # nf /\ nc # 1 /\ nf # 1
      THEN [err |-> "IndexError", phot |-> <<>>]
      ELSE IF \E k \in 1..len : PyIndex(tag(k), Len(phot)) = 0
      THEN [err |-> "IndexError", phot |-> <<>>]
      ELSE [err |-> "ok",
            phot |-> Array([k \in 1..len |->
                       phot[PyIndex(tag(k), Len(phot))][col(k)]])]

\* Lines 187-240 of get_spectrum, g being what get_galaxy_spectrum returned
observed(a, p, g) ==
  LET nrow == Len(g.spectrum)
      af == RAdd(R(1), Get(p, "zred", R(0)))
      wa == Array([w \in 1..NWave |-> RMul(g.wave[w], af)])
      sa == Array([r \in 1..nrow |->
                Array([w \in 1..NWave |-> RMul(g.spectrum[r][w], af)])])
      hasf == "filters" \in DOMAIN a
      fnames == Array([k \in 1..Len(a.filters) |-> a.filters[k].name])
      u == np_unique(fnames)
      unique_filters == Array([j \in 1..Len(u.uinds) |-> a.filters[u.uinds[j]]])
      fnu == Array([r \in 1..nrow |-> Array([w \in 1..NWave |->
                RMul(RMul(RDiv(lightspeed, RMul(wa[w], wa[w])), sa[r][w]), to_cgs)])])
      phot == getSED_maggies(wa, fnu, unique_filters)
      df == dfactor(p)
      conv == RDiv(RDiv(to_cgs, df), RMul(R(3631), jansky_cgs))
      mass == mass_vector(p.mass)
      sa_out == Array([r \in 1..nrow |-> Array([w \in 1..NWave |->
                   RMul(RMul(sa[r][w], conv), mass[r])])])
      photm == Array([r \in 1..nrow |-> Array([j \in 1..Len(u.unique) |->
                   RMul(RDiv(phot[r][j], df), mass[r])])])
      component == IF "component" \in DOMAIN a
                   THEN [array |-> a.component] ELSE [scalar |-> -1]
      sel == select(photm, component, u.inverse)
  IN  IF ~hasf
      THEN \* phot = 0.0, and line 238 reads filter_ind, which was never bound
           [err |-> "UnboundLocalError"]
      ELSE IF sel.err # "ok" THEN [err |-> sel.err]
      ELSE [err |-> "ok", sa |-> sa_out, phot |-> sel.phot, mfrac |-> g.mfrac]

\* get_spectrum(outwave=None, filters=None, component=-1, **params).
\* a is the keyword dictionary of the call: a.filters (absent: None) is a
\* list of filter objects, a.component (absent: the default -1) an array.
\* The catalog has no 'wavecal_coeffs', so b = 0.0.
get_spectrum(a, p) == observed(a, p, get_galaxy_spectrum(p))

-----------------------------------------------------------------------------
(* SpatialSedModel *)

\* Every value of a 2-d array, as a set
Values(spec) == {spec[r][w] : r \in 1..Len(spec), w \in 1..NWave}

Positive(spec) == {v \in Values(spec) : RLt(R(0), v)}

RMin(S) == CHOOSE m \in S : \A v \in S : RLe(m, v)

\* The mutant: the floor is the smallest positive value over the number of
\* all values of the array, not over len(spec)
clamp_size(spec) ==
  IF Len(spec) = 0 \/ Positive(spec) = {} THEN spec
  ELSE LET tiny == RMul(<<1, Len(spec) * NWave>>, RMin(Positive(spec)))
       IN  Array([r \in 1..Len(spec) |-> Array([w \in 1..NWave |->
              IF RLt(spec[r][w], tiny) THEN tiny ELSE spec[r][w]])])

\* try: tiny = 1.0/len(spec) * spec[spec > 0].min(); spec[spec < tiny] = tiny
\* except: pass.   len(spec) is the number of rows; min() of an empty
\* selection raises, and so does 1.0/0, and the except clause drops it.
clamp(spec) ==
  IF Len(spec) = 0 \/ Positive(spec) = {} THEN spec
  ELSE LET tiny == RMul(<<1, Len(spec)>>, RMin(Positive(spec)))
       IN  Array([r \in 1..Len(spec) |-> Array([w \in 1..NWave |->
              IF RLt(spec[r][w], tiny) THEN tiny ELSE spec[r][w]])])

\* self.sky() of the base model: no sky term
sky == R(0)

\* Lines 276-285 of sed, r being what sps.get_spectrum returned and scaled
\* the spectrum times the normalization guess
sed_clamped(r, scaled, clamped) ==
  [err |-> "ok", scaled |-> scaled,
   spec |-> Array([i \in 1..Len(clamped) |-> Array([w \in 1..NWave |->
              RAdd(clamped[i][w], sky)])]),
   phot |-> r.phot, extras |-> r.mfrac]

sed_scaled(r, scaled) == sed_clamped(r, scaled, clamp(scaled))

sed_result(obs, r) ==
  IF r.err # "ok" THEN [err |-> r.err]
  ELSE sed_scaled(r, Array([i \in 1..Len(r.sa) |-> Array([w \in 1..NWave |->
         RMul(r.sa[i][w], Get(obs, "normalization_guess", R(1)))])]))

\* sed(theta, obs, sps): theta and the fixed parameters are self.params = p
\* after set_parameters.  In the result, scaled is the spectrum the clamp is
\* applied to.
sed(p, obs) ==
  sed_result(obs, get_spectrum([k \in (DOMAIN obs) \cap {"filters", "component"}
                                   |-> obs[k]], p))

-----------------------------------------------------------------------------
(* load_obs *)

fname_hst == <<f435w, f606w, f775w, f850lp, f125w, f140w, f160w>>

\* The file of a filter: its name and '.par'
par(name) == name \o <<".", "par">>

\* 'goodsn' in f
HasGoodsn(f) == \E i \in 1..Len(f) : f[i] = "goodsn"

\* s.split(sep)[0]: the part before the first separator
SplitFirst(s, sep) ==
  IF \E i \in 1..Len(s) : s[i] = sep
  THEN SubSeq(s, 1, Index(s, sep) - 1)
  ELSE s

\* The mutant: the second block is tagged 0 and the first 1
component_tags_swapped(n_hst, n_blended) ==
  [k \in 1..(2 * n_hst + n_blended) |->
     IF k <= n_hst THEN 1 ELSE IF k <= 2 * n_hst THEN 0 ELSE -1]

\* np.zeros(n_hst) + np.ones(n_hst) + np.repeat(-1, n_blended), as integers
component_tags(n_hst, n_blended) ==
  [k \in 1..(2 * n_hst + n_blended) |->
     IF k <= n_hst THEN 0 ELSE IF k <= 2 * n_hst THEN 1 ELSE -1]

\* np.random.normal(0, 1, n): the k-th draw of the generator in state seed
normal(seed, k) == R(((seed + k) % 3) - 1)

\* The mutant: the noise is added whatever add_noise says
mock_maggies_noisy(phot, pnoise_sigma, add_noise, seed) ==
  Array([k \in 1..Len(phot) |->
           RAdd(phot[k], RMul(normal(seed, k), pnoise_sigma[k]))])

\* if add_noise: maggies = phot + normal * pnoise_sigma, else phot.copy()
mock_maggies(phot, pnoise_sigma, add_noise, seed) ==
  IF add_noise
  THEN Array([k \in 1..Len(phot) |->
                RAdd(phot[k], RMul(normal(seed, k), pnoise_sigma[k]))])
  ELSE phot

\* Lines 60-72 of load_obs over the directory listing dir: the locals
discover(dir) ==
  LET tagged == SelectSeq(dir, HasGoodsn)
      fname_goodsn == Array([i \in 1..Len(tagged) |-> SplitFirst(tagged[i], ".")])
      n_hst == Len(fname_hst)
      n_blended == Len(fname_goodsn) - n_hst
      fname_ground == SelectSeq(fname_goodsn,
                        LAMBDA n : SplitFirst(n, "_") \notin Range(fname_hst))
      hst == Array([i \in 1..n_hst |-> fname_hst[i] \o goodsn])
  IN  IF n_blended < 0
      THEN \* np.repeat(-1, n_blended) raises
           [err |-> "ValueError", fname_goodsn |-> fname_goodsn,
            component |-> <<>>, fnames |-> <<>>]
      ELSE [err |-> "ok", fname_goodsn |-> fname_goodsn,
            component |-> Array(component_tags(n_hst, n_blended)),
            fnames |-> hst \o hst \o fname_ground]

\* Lines 95-113 of load_obs, r being what mod.mean_model returned
mock(snr, add_noise, seed, filters, component, r, pnoise_sigma) ==
  [filters |-> filters, component |-> component,
   maggies |-> mock_maggies(r.phot, pnoise_sigma, add_noise, seed),
   maggies_unc |-> pnoise_sigma,
   mock_snr |-> snr,
   phot_mask |-> [k \in 1..Len(r.phot) |-> TRUE],
   true_spectrum |-> r.spec,
   true_maggies |-> r.phot]

\* Lines 80-113 of load_obs
mean_model(kw, seed, d, mp1, r) ==
  LET locals == [fname_goodsn |-> d.fname_goodsn, fnames |-> d.fnames,
                 component |-> d.component,
                 add_noise |-> Get(kw, "add_noise", TRUE),
                 model_params |-> mp1, built |-> TRUE]
  IN  IF r.err # "ok" THEN locals @@ [err |-> r.err]
      ELSE locals @@
           [err |-> "ok",
            obs |-> mock(Get(kw, "snr", R(10)), Get(kw, "add_noise", TRUE), seed,
                         Array([i \in 1..Len(d.fnames) |-> [name |-> d.fnames[i]]]),
                         d.component, r,
                         Array([k \in 1..Len(r.phot) |->
                                  RDiv(r.phot[k], Get(kw, "snr", R(10)))]))]

\* Lines 73-94 of load_obs, d being the locals of lines 60-72 and mp1 the
\* catalog once load_model(**kwargs) has run
modelled(kw, seed, d, mp1) ==
  LET n == mp1[Index(pn(mp1), "mass")].N
      p == [zred |-> zred_init(mp1),
            mass |-> Get(kw, "mass", [i \in 1..n |-> mp1[Index(pn(mp1), "mass")].init]),
            pop |-> Get(kw, "pop", [i \in 1..n |-> 1])]
  IN  mean_model(kw, seed, d, mp1,
                 sed(p, [filters |-> Array([i \in 1..Len(d.fnames) |->
                                               [name |-> d.fnames[i]]]),
                         component |-> d.component]))

discovered(kw, dir, mp, seed, d) ==
  LET failed == [fname_goodsn |-> d.fname_goodsn, fnames |-> d.fnames,
                 component |-> d.component,
                 add_noise |-> Get(kw, "add_noise", TRUE),
                 model_params |-> mp, built |-> FALSE]
  IN  IF d.err # "ok" THEN failed @@ [err |-> d.err]
      ELSE IF \E i \in 1..Len(d.fnames) : par(d.fnames[i]) \notin Range(dir)
      THEN \* load_filters finds no file for a name
           failed @@ [err |-> "IOError"]
      ELSE modelled(kw, seed, d,
                    load_model(mp, [k \in (DOMAIN kw) \ {"snr", "add_noise"} |-> kw[k]]))

\* load_obs(snr=10.0, add_noise=True, **kwargs) over the directory listing
\* dir and the catalog mp.  kw holds all keywords of the call; kw.pop stands
\* for the per-component logzsol, tau, tage and dust2 of the mock (absent:
\* the catalog's init for both components).  The result carries the locals
\* of lines 61-72, the catalog after the call and, when the call returns,
\* the observation.
load_obs(kw, dir, mp, seed) == discovered(kw, dir, mp, seed, discover(dir))

-----------------------------------------------------------------------------
(* The filter directories considered *)

HstFiles == Array([i \in 1..Len(fname_hst) |-> par(fname_hst[i] \o goodsn)])

GroundCandidates ==
  << par(<<"u">> \o goodsn), par(<<"irac1">> \o goodsn), par(<<"f814w">> \o goodsn) >>

\* Files that may or may not be there: the ground-based filters and a second
\* version of a space-telescope filter
OptionalFiles ==
  SubSeq(GroundCandidates, 1, IF MaxGround < 3 THEN MaxGround ELSE 3)
    \o << par(f160w \o goodsn \o <<"_", "v2">>) >>

\* A filter of another field, always there
OtherFiles == << par(<<"u", "_", "cosmos">>) >>

Reverse(s) == Array([i \in 1..Len(s) |-> s[Len(s) + 1 - i]])

\* A listing holds the space-telescope files, all or all but the first, and
\* some of the optional files, in this order or the reverse one
Directories ==
  LET pick(S) == SelectSeq(OptionalFiles, LAMBDA f : f \in S)
      base == {HstFiles, Tail(HstFiles)}
      fwd == {h \o OtherFiles \o pick(S) :
                h \in base, S \in SUBSET Range(OptionalFiles)}
  IN  fwd \cup {Reverse(d) : d \in fwd}

FullDirectory == HstFiles \o OtherFiles \o OptionalFiles

-----------------------------------------------------------------------------
(* Inputs of the calls *)

None == [k \in {} |-> 0]   \* the empty keyword dictionary

Opt(key, values) == {None} \cup {[k \in {key} |-> v] : v \in values}

\* Keyword dictionaries: one choice per key, the key possibly absent
ZredKw == Opt("zred", {R(0), R(1)})

ObsKw ==
  {z @@ m @@ q @@ s @@ n :
     z \in ZredKw,
     m \in Opt("mass", {<<R(4), R(1)>>}),
     q \in Opt("pop", {<<1, 2>>}),
     s \in Opt("snr", {R(20)}),
     n \in Opt("add_noise", {FALSE})}

Seeds == {0, 1}

\* The state of the random generator matters only when noise is drawn
ObsCalls ==
  {c \in [op : {"load_obs"}, kw : ObsKw, seed : Seeds] :
     Get(c.kw, "add_noise", TRUE) \/ c.seed = 0}

Masses == {R(1), R(3)}

\* self.params of a source with n components, the populations of the
\* components being one of pops
SourceParams(n, pops) ==
  {[mass |-> m, pop |-> q] @@ u @@ z :
     m \in [1..n -> Masses], q \in pops,
     u \in Opt("mass_units", {"mstar"}),
     z \in {None, [zred |-> R(1)], [zred |-> R(1), lumdist |-> <<3, 100000>>]}}

FilterNames == {f435w \o goodsn, f160w \o goodsn}

FilterLists ==
  UNION {[1..n -> {[name |-> x] : x \in FilterNames}] : n \in 1..MaxFilters}

\* The keywords filters and component of a get_spectrum call on a source of
\* n components
SpectrumArgs(n) ==
  {None}
    \cup {[filters |-> f] : f \in FilterLists}
    \cup UNION {{[filters |-> f, component |-> c] : c \in [1..Len(f) -> -1..(n - 1)]}
                  : f \in FilterLists}

\* Observation dictionaries handed to sed
SedObs ==
  {f @@ g : f \in {None, [filters |-> <<[name |-> f435w \o goodsn]>>],
                   [filters |-> <<[name |-> f435w \o goodsn],
                                  [name |-> f160w \o goodsn]>>,
                    component |-> <<0, -1>>]},
            g \in Opt("normalization_guess", {R(-1), R(0), R(2)})}

-----------------------------------------------------------------------------
(* The state machine *)

Init ==
  /\ model_params = model_params_0
  /\ zred_arg = [called |-> FALSE]
  /\ directory \in Directories
  /\ args = None
  /\ ret = [op |-> "none"]

call_load_model ==
  \E kw \in ZredKw :
    /\ model_params' = load_model(model_params, kw)
    /\ zred_arg' = [called |-> TRUE, kw |-> kw, before |-> zred_init(model_params)]
    /\ ret' = [op |-> "load_model"]
    /\ UNCHANGED <<directory, args>>

\* The effect of a load_obs call that ended as r
returned(kw, r) ==
  /\ model_params' = r.model_params
  /\ zred_arg' = IF r.built
                 THEN [called |-> TRUE,
                       kw |-> [k \in (DOMAIN kw) \cap {"zred"} |-> kw[k]],
                       before |-> zred_init(model_params)]
                 ELSE zred_arg
  /\ ret' = [op |-> "load_obs", kw |-> kw, out |-> r]
  /\ UNCHANGED <<directory, args>>

\* One load_obs call with keywords kw, the generator being in state seed
do_load_obs(kw, seed) == returned(kw, load_obs(kw, directory, model_params, seed))

\* load_obs among the load_model calls: only its redshift keyword varies
call_load_obs == \E kw \in ZredKw : do_load_obs(kw, 0)

Next == call_load_model \/ call_load_obs

Spec == Init /\ [][Next]_vars

\* The mock generator on its own: one call in a fresh process, the keywords
\* and the generator state drawn at the start
InitObs ==
  /\ model_params = model_params_0
  /\ zred_arg = [called |-> FALSE]
  /\ directory \in Directories
  /\ args \in ObsCalls
  /\ ret = [op |-> "none"]

mock_load_obs ==
  /\ ret.op = "none"
  /\ args.op = "load_obs"
  /\ do_load_obs(args.kw, args.seed)

NextObs == mock_load_obs

SpecObs == InitObs /\ [][NextObs]_vars

\* The source and the model wrapper are functions of their arguments and of
\* the parameters handed to them: one call, on arguments drawn at the start
SourceCalls ==
  UNION {
    {[op |-> "get_galaxy_spectrum", p |-> p] :
       p \in SourceParams(n, [1..n -> Pops])}
    \cup {[op |-> "get_spectrum", p |-> p, a |-> a] :
       p \in SourceParams(n, {[i \in 1..n |-> i]}), a \in SpectrumArgs(n)}
    \cup {[op |-> "sed", p |-> p, obs |-> obs] :
       p \in SourceParams(n, [1..n -> Pops]), obs \in SedObs}
    : n \in 1..NComp}

InitSource ==
  /\ model_params = model_params_0
  /\ zred_arg = [called |-> FALSE]
  /\ directory = FullDirectory
  /\ args \in SourceCalls
  /\ ret = [op |-> "none"]

call_get_galaxy_spectrum ==
  /\ ret.op = "none"
  /\ args.op = "get_galaxy_spectrum"
  /\ ret' = [op |-> args.op, out |-> get_galaxy_spectrum(args.p)]
  /\ UNCHANGED <<model_params, zred_arg, directory, args>>

call_get_spectrum ==
  /\ ret.op = "none"
  /\ args.op = "get_spectrum"
  /\ ret' = [op |-> args.op, out |-> get_spectrum(args.a, args.p)]
  /\ UNCHANGED <<model_params, zred_arg, directory, args>>

call_sed ==
  /\ ret.op = "none"
  /\ args.op = "sed"
  /\ ret' = [op |-> args.op, out |-> sed(args.p, args.obs)]
  /\ UNCHANGED <<model_params, zred_arg, directory, args>>

NextSource == call_get_galaxy_spectrum \/ call_get_spectrum \/ call_sed

SpecSource == InitSource /\ [][NextSource]_vars

-----------------------------------------------------------------------------
(* Properties of the catalog and of load_model *)

\* C1: after any sequence of load_model calls the 'init' of the catalog's
\* zred entry is the zred argument of the most recent call, 0.0 when that
\* call passed none.
C1_ZredIsLatest ==
  zred_arg.called => zred_init(model_params) = Get(zred_arg.kw, "zred", R(0))

\* A second call, made without zred when an earlier call had left 1.0,
\* leaves 0.0.
C1_Witness ==
  /\ ret.op = "load_model"
  /\ zred_arg.called
  /\ zred_arg.before = R(1)
  /\ "zred" \notin DOMAIN zred_arg.kw
  /\ zred_init(model_params) = R(0)

\* C6, as claimed: the catalog has exactly 17 entries in every state.
C6_Exactly17 == Len(model_params) = 17

\* C6, amended: the catalog has exactly 18 entries, in the initial state
\* and after any sequence of load_model calls.
C6_Exactly18 == Len(model_params) = 18

C6_Witness ==
  /\ ret.op = "load_model"
  /\ zred_arg.called
  /\ zred_arg.before # <<1, 10>>
  /\ Len(model_params) = 18

\* The free parameters in catalog order, and the length of theta
FreeNames(mp) == SelectSeq(pn(mp), LAMBDA n : mp[Index(pn(mp), n)].isfree)

ThetaLen(mp) == SeqSum([i \in 1..Len(mp) |-> IF mp[i].isfree THEN mp[i].N ELSE 0])

-----------------------------------------------------------------------------
(* Properties of load_obs *)

\* C3: load_obs with add_noise false returns 'maggies' equal, entry for
\* entry, to 'true_maggies', whatever the signal-to-noise and the filters.
C3_NoiselessMaggies ==
  (ret.op = "load_obs" /\ ret.out.err = "ok" /\ ~ret.out.add_noise)
    => /\ Len(ret.out.obs.maggies) = Len(ret.out.obs.true_maggies)
       /\ \A k \in 1..Len(ret.out.obs.maggies) :
            ret.out.obs.maggies[k] = ret.out.obs.true_maggies[k]

\* A noiseless mock with snr = 20 over the space-telescope filters and a
\* ground-based one, with nonzero photometry.
C3_Witness ==
  /\ ret.op = "load_obs"
  /\ ret.out.err = "ok"
  /\ ~ret.out.add_noise
  /\ ret.out.obs.mock_snr = R(20)
  /\ Len(ret.out.obs.maggies) > 2 * Len(fname_hst)
  /\ \A k \in 1..Len(ret.out.obs.maggies) : ret.out.obs.true_maggies[k] # R(0)

\* The tag array is parallel to the filter-name list: same length, 0 on the
\* first block of the 7 space-telescope filters, 1 on the second, -1 on
\* every ground-based name, and every discovered ground-based name is there.
Parallel(o) ==
  LET n == Len(fname_hst)
      ground(name) == SplitFirst(name, "_") \notin Range(fname_hst)
  IN  /\ Len(o.component) = Len(o.fnames)
      /\ \A k \in 1..Len(o.fnames) :
           /\ k <= n => o.component[k] = 0 /\ o.fnames[k] = fname_hst[k] \o goodsn
           /\ (k > n /\ k <= 2 * n)
                => o.component[k] = 1 /\ o.fnames[k] = fname_hst[k - n] \o goodsn
           /\ k > 2 * n => o.component[k] = -1 /\ ground(o.fnames[k])
      /\ \A i \in 1..Len(o.fname_goodsn) :
           ground(o.fname_goodsn[i])
             => \E k \in (2 * n + 1)..Len(o.fnames) :
                  o.fnames[k] = o.fname_goodsn[i] /\ o.component[k] = -1

\* C9, as claimed: for every set of 'goodsn' names found in the directory
\* the tag array is parallel to the filter-name list.
C9_ParallelAlways == ret.op = "load_obs" => Parallel(ret.out)

\* The discovered names whose prefix is a space-telescope filter
HstDiscovered(o) ==
  SelectSeq(o.fname_goodsn, LAMBDA name : SplitFirst(name, "_") \in Range(fname_hst))

\* C9, amended: when exactly 7 of the discovered 'goodsn' names have a
\* space-telescope prefix, the tag array is parallel to the filter-name list.
C9_ParallelWhenSeven ==
  (ret.op = "load_obs" /\ Len(HstDiscovered(ret.out)) = Len(fname_hst))
    => Parallel(ret.out)

\* A reversed listing with the 7 space-telescope files and a ground-based one.
C9_Witness ==
  /\ ret.op = "load_obs"
  /\ ret.out.err = "ok"
  /\ Len(HstDiscovered(ret.out)) = Len(fname_hst)
  /\ Len(ret.out.fnames) > 2 * Len(fname_hst)
  /\ directory[Len(directory)] = HstFiles[1]

-----------------------------------------------------------------------------
(* Properties of SpatialSource *)

\* C5: when all components have the same spectrum and the same surviving
\* fraction (always so for one component), the composite spectrum, the last
\* row, is the component spectrum and the composite fraction, the last
\* entry, is the component fraction, for any positive masses and for both
\* mass_units conventions.
C5_IdenticalComponents ==
  LET o == ret.out
      n == Len(args.p.mass)
  IN  (/\ ret.op = "get_galaxy_spectrum"
       /\ \A i \in 1..n : o.spectrum[i] = o.spectrum[1] /\ o.mfrac[i] = o.mfrac[1])
        => /\ Len(o.spectrum) = n + 1
           /\ Len(o.mfrac) = n + 1
           /\ o.spectrum[n + 1] = o.spectrum[1]
           /\ o.mfrac[n + 1] = o.mfrac[1]

\* Two components of the same population with different masses, the masses
\* being stellar masses.
C5_Witness ==
  /\ ret.op = "get_galaxy_spectrum"
  /\ Len(args.p.mass) = 2
  /\ args.p.pop[1] = args.p.pop[2]
  /\ args.p.mass[1] # args.p.mass[2]
  /\ Get(args.p, "mass_units", "mformed") = "mstar"
  /\ ret.out.spectrum[3] = ret.out.spectrum[1]

\* The sequences that list every element of a set once
Orderings(S) == {q \in [1..Cardinality(S) -> S] : Range(q) = S}

\* C4: with repeated filters in the list, in any order, the photometry is,
\* entry for entry, the photometry computed once per distinct filter name
\* (on a list of the distinct filters, in whatever order) re-expanded to the
\* order of the list: the value at position k is the one of filters[k].name.
C4_RepeatedFilters ==
  (/\ ret.op = "get_spectrum"
   /\ "filters" \in DOMAIN args.a
   /\ "component" \notin DOMAIN args.a)
    => /\ ret.out.err = "ok"
       /\ Len(ret.out.phot) = Len(args.a.filters)
       /\ \A d \in Orderings(Range(args.a.filters)) :
            LET once == get_spectrum([filters |-> d], args.p)
            IN  \A k \in 1..Len(args.a.filters) :
                  ret.out.phot[k] = once.phot[Index(d, args.a.filters[k])]

\* A list of three filters whose first and last are the same one and whose
\* first name sorts after the second, on two components.
C4_Witness ==
  /\ ret.op = "get_spectrum"
  /\ "filters" \in DOMAIN args.a
  /\ "component" \notin DOMAIN args.a
  /\ Len(args.p.mass) = 2
  /\ Len(args.a.filters) = 3
  /\ args.a.filters[1] = args.a.filters[3]
  /\ Rank(args.a.filters[1].name) > Rank(args.a.filters[2].name)
  /\ ret.out.err = "ok"
  /\ ret.out.phot[1] # ret.out.phot[2]

\* C8, as claimed: get_spectrum without filters completes without error and
\* returns the scalar 0.0 as photometry, with the spectrum and the fractions.
C8_NoFiltersZero ==
  (ret.op = "get_spectrum" /\ "filters" \notin DOMAIN args.a)
    => /\ ret.out.err = "ok"
       /\ ret.out.phot = R(0)
       /\ {"sa", "mfrac"} \subseteq DOMAIN ret.out

\* The distance-dimmed photometry of row r of the spectra (r = n + 1 is the
\* composite) in the filter called name, times the mass of the row
RowMaggies(p, r, name) ==
  LET g == get_galaxy_spectrum(p)
      af == RAdd(R(1), Get(p, "zred", R(0)))
      wa == [w \in 1..NWave |-> RMul(g.wave[w], af)]
      fnu == [w \in 1..NWave |->
                RMul(RMul(RDiv(lightspeed, RMul(wa[w], wa[w])),
                          RMul(g.spectrum[r][w], af)), to_cgs)]
      m == IF r <= Len(p.mass) THEN p.mass[r] ELSE RSum(p.mass)
  IN  RMul(RDiv(band_maggies(wa, fnu, [name |-> name]), dfactor(p)), m)

\* C10: with a filter list and a tag array of the same length, position k
\* holds the distance-dimmed photometry of the row that component[k] selects
\* (row i for tag i, the composite for tag -1) in the filter filters[k].name,
\* times that row's mass; with the default component every entry comes from
\* the composite row.
C10_RowPerFilter ==
  LET n == Len(args.p.mass)
      nf == Len(args.a.filters)
      tag(k) == IF "component" \in DOMAIN args.a THEN args.a.component[k] ELSE -1
      row(k) == IF tag(k) = -1 THEN n + 1 ELSE tag(k) + 1
  IN  (ret.op = "get_spectrum" /\ "filters" \in DOMAIN args.a)
        => /\ ret.out.err = "ok"
           /\ Len(ret.out.phot) = nf
           /\ \A k \in 1..nf :
                ret.out.phot[k] = RowMaggies(args.p, row(k), args.a.filters[k].name)

\* Three filters, the first and last the same, tagged composite, second
\* component, first component, at redshift 1.
C10_Witness ==
  /\ ret.op = "get_spectrum"
  /\ "filters" \in DOMAIN args.a
  /\ "component" \in DOMAIN args.a
  /\ Len(args.p.mass) = 2
  /\ args.a.component = <<-1, 1, 0>>
  /\ args.a.filters[1] = args.a.filters[3]
  /\ args.a.filters[1] # args.a.filters[2]
  /\ Get(args.p, "zred", R(0)) = R(1)
  /\ ret.out.err = "ok"
  /\ ret.out.phot[1] # ret.out.phot[3]

-----------------------------------------------------------------------------
(* Properties of SpatialSedModel *)

\* C2: the clamp of sed on the scaled spectrum.  With a positive value in
\* it, every value afterwards is >= tiny = (1/len) * the least positive
\* value, and the values that were >= tiny are as they were; with no
\* positive value nothing is modified, and no error is raised.
C2_FluxClamp ==
  LET before == ret.out.scaled
      after == ret.out.spec
      tiny == RMul(<<1, Len(before)>>, RMin(Positive(before)))
  IN  (ret.op = "sed" /\ "filters" \in DOMAIN args.obs)
        => /\ ret.out.err = "ok"
           /\ Len(after) = Len(before)
           /\ IF Positive(before) # {}
              THEN \A r \in 1..Len(before), w \in 1..NWave :
                     /\ RLe(tiny, after[r][w])
                     /\ RLe(tiny, before[r][w]) => after[r][w] = before[r][w]
              ELSE after = before

\* A spectrum with a positive value and a zero or negative one, which the
\* clamp lifts to tiny.
C2_Witness ==
  /\ ret.op = "sed"
  /\ ret.out.err = "ok"
  /\ Positive(ret.out.scaled) # {}
  /\ \E r \in 1..Len(ret.out.scaled), w \in 1..NWave :
       /\ RLe(ret.out.scaled[r][w], R(0))
       /\ RLt(R(0), ret.out.spec[r][w])
       /\ ret.out.spec[r][w]
            = RMul(<<1, Len(ret.out.scaled)>>, RMin(Positive(ret.out.scaled)))

====
